---- MODULE Spec2Model ----
(***************************************************************************)
(* Model of the transcribe-ws-server connection handler                    *)
(* (wss.on('connection')), the audio ingestion bridge (createAudioStream)  *)
(* and the query validator (validateQueryParameters).                      *)
(*                                                                         *)
(* Node runs every callback to completion, so one action is one callback   *)
(* (or one synchronous segment of an async function, from one await or     *)
(* yield to the next).  The WebSocket peer, the timer and the transcription*)
(* engine are the environment: their events are the actions' inputs.       *)
(***************************************************************************)
EXTENDS Integers, Sequences, FiniteSets, TLC

(* ------------------------------------------------------------------ *)
(* Bounds of the model                                                 *)
(* ------------------------------------------------------------------ *)

\* The admission limit K.  config.server.maxConnections is 100 in the source
\* (src/config/index.js:59); the model scales it down so that more than K
\* connections can be explored.
MaxConnections == 1

\* Binary frames a client sends on one connection.
MaxFrames == 3

\* Non-binary frames a client sends on one connection.
MaxControl == 2

\* Result events the engine emits on one session's result stream.
MaxEvents == 2

\* Connections of the admission specification: two more than the limit, so
\* that one can be refused and a later one admitted in its place.
Conns == 1 .. (MaxConnections + 2)

\* Connections of the session specification (one fully detailed session).
SessionConns == {1}

(* ------------------------------------------------------------------ *)
(* Query validation (utils/validate-query.js)                          *)
(* ------------------------------------------------------------------ *)

\* config.auth.apiTokens: the configured tokens (non-empty strings).
apiTokens == {"tokA", "tokB"}

\* Object.values(LanguageCode) of the SDK, cut down to three members.
LanguageCodes == {"en-US", "es-ES", "fr-FR"}

\* Object.values(MediaEncoding) of the SDK.
MediaEncodings == {"pcm", "ogg-opus", "flac"}

Absent == "absent"

\* The sampleRate key of a query string, as Joi.number() sees it after
\* conversion: absent, not a number, a number that is no integer (its floor
\* is kept), or an integer.
RateAbsent == [kind |-> "absent", n |-> 0]
RateNaN == [kind |-> "nan", n |-> 0]
RateFraction(n) == [kind |-> "fraction", n |-> n]
RateInt(n) == [kind |-> "integer", n |-> n]

\* A query string: every other key is a string or absent.
Query(tok, lang, enc, rate, partials) ==
  [token |-> tok, language |-> lang, encoding |-> enc,
   sampleRate |-> rate, sendPartials |-> partials]

SampleRateMin == 8000
SampleRateMax == 48000
SampleRateDefault == 16000

\* tokenOk without .valid(...apiTokens): any token that is present passes.
tokenPresent(q) == q.token # Absent /\ q.token # ""

tokenOk(q) == q.token # Absent /\ q.token # "" /\ q.token \in apiTokens
languageOk(q) == q.language = Absent \/ q.language \in LanguageCodes
encodingOk(q) == q.encoding = Absent \/ q.encoding \in MediaEncodings
sampleRateOk(q) ==
  \/ q.sampleRate.kind = "absent"
  \/ /\ q.sampleRate.kind = "integer"
     /\ q.sampleRate.n >= SampleRateMin
     /\ q.sampleRate.n <= SampleRateMax
\* String.prototype.toLowerCase on the strings of the model.
toLowerCase(str) ==
  IF str = "TRUE" THEN "true" ELSE IF str = "False" THEN "false" ELSE str

\* Joi.boolean().truthy('true').falsy('false'): Joi converts a string
\* before it validates, and matches it without regard to letter case
\* unless .sensitive() is set.
sendPartialsOk(q) ==
  q.sendPartials = Absent \/ toLowerCase(q.sendPartials) \in {"true", "false"}

querySchemaError(q) ==
  ~(tokenOk(q) /\ languageOk(q) /\ encodingOk(q) /\ sampleRateOk(q)
      /\ sendPartialsOk(q))

\* querySchemaValue without the .default() of the keys.
querySchemaValueAsGiven(q) ==
  [token |-> q.token,
   language |-> q.language,
   encoding |-> q.encoding,
   sampleRate |-> q.sampleRate.n,
   sendPartials |-> toLowerCase(q.sendPartials) = "true"]

querySchemaValue(q) ==
  [token |-> q.token,
   language |-> IF q.language = Absent THEN "en-US" ELSE q.language,
   encoding |-> IF q.encoding = Absent THEN "pcm" ELSE q.encoding,
   sampleRate |-> IF q.sampleRate.kind = "absent" THEN SampleRateDefault
                  ELSE q.sampleRate.n,
   sendPartials |-> IF q.sendPartials = Absent THEN TRUE
                    ELSE toLowerCase(q.sendPartials) = "true"]

NoValue == [token |-> "", language |-> "", encoding |-> "",
            sampleRate |-> 0, sendPartials |-> FALSE]

validateQueryParameters(q) ==
  IF querySchemaError(q)
  THEN [isValid |-> FALSE, value |-> NoValue]
  ELSE [isValid |-> TRUE, value |-> querySchemaValue(q)]

\* A connection request: whether `new URL(request.url, ...)` succeeds, and
\* the query string it carries.
Request(ok, q) == [urlOk |-> ok, query |-> q]

NoRequest == Request(FALSE, Query(Absent, Absent, Absent, RateAbsent, Absent))

\* The requests the connections of the model are opened with.
Requests ==
  { Request(TRUE, Query("tokA", Absent, Absent, RateAbsent, Absent)),
    Request(TRUE, Query(Absent, Absent, Absent, RateAbsent, Absent)),
    Request(TRUE, Query("bad", Absent, Absent, RateAbsent, Absent)),
    Request(TRUE, Query("tokB", Absent, Absent, RateInt(SampleRateMax + 1),
                        Absent)),
    Request(FALSE, Query("tokA", Absent, Absent, RateAbsent, Absent)),
    Request(FALSE, Query("bad", Absent, Absent, RateAbsent, Absent)) }

\* The requests of the validation specification: every key absent, well
\* formed and ill formed, the sample rate on both sides of both limits.
ValidationRequests ==
  { Request(TRUE, Query(tok, lang, enc, rate, partials)) :
      tok \in {Absent, "", "bad", "tokA", "tokB"},
      lang \in {Absent, "en-US", "fr-FR", "en-us"},
      enc \in {Absent, "pcm", "flac", "mp3"},
      rate \in {RateAbsent, RateNaN, RateFraction(SampleRateDefault),
                RateInt(SampleRateMin - 1), RateInt(SampleRateMin),
                RateInt(SampleRateDefault + 1), RateInt(SampleRateMax),
                RateInt(SampleRateMax + 1)},
      partials \in {Absent, "true", "false", "TRUE", "False", "yes"} }

\* The requests of the admission specification.
AdmissionRequests ==
  { Request(TRUE, Query("tokA", Absent, Absent, RateAbsent, Absent)),
    Request(TRUE, Query("bad", Absent, Absent, RateAbsent, Absent)),
    Request(FALSE, Query("tokA", Absent, Absent, RateAbsent, Absent)) }

(* ------------------------------------------------------------------ *)
(* Audio ingestion bridge (utils/audio-stream.js, createAudioStream)    *)
(* ------------------------------------------------------------------ *)

\* An audio chunk: seq is the position of the frame among the binary frames
\* of its connection (0 for the synthetic end marker), len its byte length
\* (0 or 1: empty or not).
Chunk(seq, len) == [seq |-> seq, len |-> len]

\* Buffer.alloc(0), the end marker of line 71.
EndMarker == Chunk(0, 0)

\* A frame as the 'message' event delivers it: a binary frame (an
\* ArrayBuffer), or a text frame.
BinaryFrame(ch) == [binary |-> TRUE, chunk |-> ch, text |-> ""]
TextFrame(t) == [binary |-> FALSE, chunk |-> EndMarker, text |-> t]

\* The text frames a client sends: the documented end-of-stream message,
\* and some other text.
ControlTexts == {"END_OF_STREAM", "hello"}

\* The generator object before its first next(): no line of the body has
\* run, so the locals hold their initial values and no listener is set.
\* pc is where the generator stands:
\*   "none"       no generator was created
\*   "notStarted" created (line 94 of the handler), body not entered
\*   "yielded"    suspended at the yield of line 66
\*   "yieldedEnd" suspended at the yield of line 71 (the end marker)
\*   "waiting"    suspended at the await of line 82, promise pending
\*   "woken"      the awaited promise is resolved, continuation not yet run
\*   "done"       returned; the finally block has run
\*   "returned"   completed by the consumer's return() while not running
NoAudio ==
  [pc |-> "none", messageQueue |-> <<>>, isClosed |-> FALSE,
   resolvePromise |-> FALSE, isResolving |-> FALSE,
   endStreamReceived |-> FALSE]

createAudioStream == [NoAudio EXCEPT !.pc = "notStarted"]

\* Lines 32-35 and 39-42: resolve the pending promise, if one is stored.
wake(b) ==
  IF b.resolvePromise
  THEN [b EXCEPT !.resolvePromise = FALSE, !.pc = "woken"]
  ELSE b

\* messageHandler with a single slot in place of the queue: a frame that
\* arrives before the consumer resumed replaces the one queued before it.
messageHandlerSingleSlot(b, message) ==
  IF message.binary
  THEN wake([b EXCEPT !.messageQueue = <<message.chunk>>])
  ELSE wake([b EXCEPT !.endStreamReceived = TRUE])

\* messageHandler without the wake of lines 32-35 and 39-42.
messageHandlerNoWake(b, message) ==
  IF message.binary
  THEN [b EXCEPT !.messageQueue = Append(@, message.chunk)]
  ELSE [b EXCEPT !.endStreamReceived = TRUE]

\* messageHandler taking a binary frame of no bytes for the end of the
\* input.
messageHandlerEmptyEnds(b, message) ==
  IF message.binary /\ message.chunk.len > 0
  THEN wake([b EXCEPT !.messageQueue = Append(@, message.chunk)])
  ELSE wake([b EXCEPT !.endStreamReceived = TRUE])

\* Lines 25-49.
messageHandler(b, message) ==
  IF message.binary
  THEN wake([b EXCEPT !.messageQueue = Append(@, message.chunk)])
  ELSE wake([b EXCEPT !.endStreamReceived = TRUE])

\* Lines 51-57: the stored resolver is dropped, not called.
closeHandler(b) ==
  [b EXCEPT !.isClosed = TRUE, !.resolvePromise = FALSE]

\* Lines 17-23, with the await of line 82: with isResolving set no promise
\* is made and the await of undefined resumes at once.
waitForMessage(b) ==
  IF b.isResolving
  THEN [b EXCEPT !.pc = "woken"]
  ELSE [b EXCEPT !.isResolving = TRUE, !.resolvePromise = TRUE,
                 !.pc = "waiting"]

\* Lines 63-84 from the top of the inner while to the next yield, await or
\* return: the new generator state and the chunks yielded (none or one).
pullLoop(b) ==
  IF Len(b.messageQueue) > 0
  THEN [audio |-> [b EXCEPT !.messageQueue = Tail(@), !.pc = "yielded"],
        yield |-> <<Head(b.messageQueue)>>]
  ELSE IF b.endStreamReceived
  THEN [audio |-> [b EXCEPT !.pc = "yieldedEnd"], yield |-> <<EndMarker>>]
  ELSE IF b.isClosed
  THEN [audio |-> [b EXCEPT !.pc = "done"], yield |-> <<>>]
  ELSE [audio |-> waitForMessage(b), yield |-> <<>>]

\* generatorNext without the break of line 72: after the marker the loop
\* goes round again.
generatorNextNoBreak(b) == pullLoop(b)

\* One next() of the consumer on a generator that is not running: from the
\* start, from the yield of line 66, or from the yield of line 71 (break).
generatorNext(b) ==
  IF b.pc = "yieldedEnd"
  THEN [audio |-> [b EXCEPT !.pc = "done"], yield |-> <<>>]
  ELSE pullLoop(b)

\* generatorResume without `isResolving = false` (line 83).
generatorResumeKeepsFlag(b) == pullLoop(b)

\* Line 83 and on: the continuation of the await.
generatorResume(b) == pullLoop([b EXCEPT !.isResolving = FALSE])

\* The listeners createAudioStream holds on the socket (lines 59-60, 91-92).
AudioListeners == {"message", "audioClose"}

(* ------------------------------------------------------------------ *)
(* State                                                               *)
(* ------------------------------------------------------------------ *)

VARIABLES
  connectionCount, \* the process-wide counter (server.js line 36)
  readyState,      \* ws.readyState; "NONE" before the connection exists
  listeners,       \* listeners registered on ws
  aborted,         \* abortController.signal.aborted
  timeout,         \* the startup timer: none, armed, fired, cleared
  phase,           \* where the connection handler stands
  request,         \* the request the connection was opened with
  value,           \* the validated parameters of the session
  sent,            \* what the server did on the wire: sends and closes
  audio,           \* the generator of createAudioStream
  delivered,       \* chunks the generator yielded to the engine
  received,        \* binary frames that arrived on the connection
  lost,            \* seq of the binary frames no listener handled
  control,         \* number of text frames that arrived
  endOfStream,     \* an END_OF_STREAM frame arrived before the sequence ended
  burst,           \* frames found queued by the last resumption
  decrements,      \* times the close listener decremented the counter
  abortCalls,      \* times abortController.abort() was called
  emitted,         \* result events the relay took from the result stream
  relayed,         \* messages the relay passed to ws.send
  process          \* the Node process: running, shuttingDown, exit0, exit1

vars ==
  <<connectionCount, readyState, listeners, aborted, timeout, phase,
    request, value, sent, audio, delivered, received, lost, control,
    endOfStream, burst, decrements, abortCalls, emitted, relayed, process>>

relayVars == <<emitted, relayed>>

processVars == <<process>>

supervisorVars ==
  <<connectionCount, readyState, aborted, timeout, phase, request, value,
    sent, decrements, abortCalls, relayVars, processVars>>

audioVars == <<audio, delivered, burst>>

frameVars == <<received, lost, control, endOfStream>>

\* Close codes used by the server.
NormalClosure == 1000
PolicyViolation == 1008
InternalError == 1011
TryAgainLater == 1013

Send(kind) == [op |-> "send", kind |-> kind, code |-> 0]
Close(code) == [op |-> "close", kind |-> "", code |-> code]

Init ==
  /\ connectionCount = 0
  /\ readyState = [c \in Conns |-> "NONE"]
  /\ listeners = [c \in Conns |-> {}]
  /\ aborted = [c \in Conns |-> FALSE]
  /\ timeout = [c \in Conns |-> "none"]
  /\ phase = [c \in Conns |-> "none"]
  /\ request = [c \in Conns |-> NoRequest]
  /\ value = [c \in Conns |-> NoValue]
  /\ sent = [c \in Conns |-> <<>>]
  /\ audio = [c \in Conns |-> NoAudio]
  /\ delivered = [c \in Conns |-> <<>>]
  /\ received = [c \in Conns |-> <<>>]
  /\ lost = [c \in Conns |-> {}]
  /\ control = [c \in Conns |-> 0]
  /\ endOfStream = [c \in Conns |-> FALSE]
  /\ burst = [c \in Conns |-> 0]
  /\ decrements = [c \in Conns |-> 0]
  /\ abortCalls = [c \in Conns |-> 0]
  /\ emitted = [c \in Conns |-> <<>>]
  /\ relayed = [c \in Conns |-> <<>>]
  /\ process = "running"

(* ------------------------------------------------------------------ *)
(* Pieces of the connection handler (server.js, wss.on('connection'))   *)
(* ------------------------------------------------------------------ *)

\* admit with > in place of >=: one connection too many gets in.
admitOffByOne(count) == ~(count > MaxConnections)

\* Line 43: a connection is refused when the counter has reached the limit.
admit(count) == ~(count >= MaxConnections)

\* AbortUnlessAborted without the test of signal.aborted.
AbortAlways(c) ==
  /\ aborted' = [aborted EXCEPT ![c] = TRUE]
  /\ abortCalls' = [abortCalls EXCEPT ![c] = @ + 1]

\* Lines 63-65, 73-75, 101-102: abort unless the signal is aborted already.
AbortUnlessAborted(c) ==
  /\ aborted' = [aborted EXCEPT ![c] = TRUE]
  /\ abortCalls' = [abortCalls EXCEPT ![c] = IF aborted[c] THEN @ ELSE @ + 1]

\* notifyAndClose without the ws.close.
notifyOnly(state, kind, code) ==
  IF state = "OPEN" THEN <<Send(kind)>> ELSE <<>>

\* The wire operations of `if (ws.readyState === ws.OPEN) { ws.send(error);
\* ws.close(code) }` (lines 104-107, 130-133, 141-144 and
\* handleTranscriptionError): nothing unless the socket is open.
notifyAndClose(state, kind, code) ==
  IF state = "OPEN" THEN <<Send(kind), Close(code)>> ELSE <<>>

\* afterClose of a socket that stays open until the peer answers the close.
afterCloseStaysOpen(state) == state

\* ws.close() moves an open socket to CLOSING; the 'close' event comes later.
afterClose(state) == IF state = "OPEN" THEN "CLOSING" ELSE state

\* clearTimeout (lines 117, 135): a timer that has not fired never will.
clearTimeout(t) == IF t = "armed" THEN "cleared" ELSE t

\* handlerSetup with the engine call made before the parameters are
\* looked at.
handlerSetupUnvalidated(req) ==
  [phase |-> "awaitSend", wire |-> <<>>,
   value |-> querySchemaValue(req.query), started |-> TRUE,
   admitted |-> TRUE]

\* Lines 51-115 of an admitted connection, up to the first await: the phase
\* the handler is left in, what it did on the wire, the validated value and
\* whether the bridge, the command and the timer were made.
handlerSetup(req) ==
  IF ~req.urlOk
  THEN \* new URL() throws: the outer catch, lines 137-145
       [phase |-> "setupError",
        wire |-> notifyAndClose("OPEN", "error", InternalError),
        value |-> NoValue, started |-> FALSE, admitted |-> TRUE]
  ELSE LET v == validateQueryParameters(req.query) IN
       IF ~v.isValid
       THEN \* lines 84-87
            [phase |-> "invalid", wire |-> <<Close(PolicyViolation)>>,
             value |-> NoValue, started |-> FALSE, admitted |-> TRUE]
       ELSE \* lines 89-115
            [phase |-> "awaitSend", wire |-> <<>>, value |-> v.value,
             started |-> TRUE, admitted |-> TRUE]

\* refusal after `connectionCount++` and the listeners: the limit checked
\* too late.
refusalCounted ==
  [phase |-> "refused", wire |-> <<Close(TryAgainLater)>>,
   value |-> NoValue, started |-> FALSE, admitted |-> TRUE]

\* Lines 43-49: the refusal.  Nothing of the session is made.
refusal ==
  [phase |-> "refused", wire |-> <<Close(TryAgainLater)>>,
   value |-> NoValue, started |-> FALSE, admitted |-> FALSE]

(* ------------------------------------------------------------------ *)
(* The result relay (handlers/transcriptionHandler.js)                 *)
(* ------------------------------------------------------------------ *)

\* Alternatives[0]?.Transcript of a result that carries no text: undefined
\* when the list of alternatives is empty, or the empty string.
NoTranscript == <<>>

\* The k-th result of the n-th event of a result stream, with its list of
\* alternatives.  Its text names its place in the stream, so that every
\* text is emitted once.  The kinds: a partial and a final result with
\* text, a final result without alternatives, a partial result whose best
\* alternative is the empty string.
Result(kind, n, k) ==
  [IsPartial |-> kind \in {"partial", "emptyText"},
   Alternatives |->
     IF kind = "noAlternative" THEN <<>>
     ELSE IF kind = "emptyText" THEN <<[Transcript |-> NoTranscript]>>
     ELSE <<[Transcript |-> <<n, k>>]>>]

\* The batches of results the engine emits, by the kinds of their results.
Batches ==
  { <<>>, <<"partial">>, <<"final">>, <<"noAlternative">>,
    <<"partial", "final">>, <<"final", "partial">>,
    <<"partial", "emptyText", "partial">>,
    <<"noAlternative", "final">> }

\* Line 42: result.Alternatives[0]?.Transcript.
transcriptOf(result) ==
  IF result.Alternatives = <<>> THEN NoTranscript
  ELSE result.Alternatives[1].Transcript

\* An event whose TranscriptEvent.Transcript.Results is missing.
NoResultsEvent == [hasResults |-> FALSE, Results |-> <<>>]

\* The n-th event of a result stream.
Event(n, batch) ==
  [hasResults |-> TRUE,
   Results |-> [k \in 1 .. Len(batch) |-> Result(batch[k], n, k)]]

\* What the n-th event of a result stream can be.
Events(n) == { Event(n, batch) : batch \in Batches } \cup {NoResultsEvent}

\* A transcript message on the wire: {transcript} or {partialTranscript}.
Message(kind, text) == [op |-> "send", kind |-> kind, text |-> text]

\* resultMessages with the final results behind the partial-result switch.
resultMessagesFinalGated(result, sendPartials) ==
  IF transcriptOf(result) = NoTranscript \/ ~sendPartials THEN <<>>
  ELSE IF ~result.IsPartial
  THEN <<Message("transcript", transcriptOf(result))>>
  ELSE <<Message("partialTranscript", transcriptOf(result))>>

\* resultMessages without the partial-result switch.
resultMessagesUngated(result, sendPartials) ==
  IF transcriptOf(result) = NoTranscript THEN <<>>
  ELSE IF ~result.IsPartial
  THEN <<Message("transcript", transcriptOf(result))>>
  ELSE <<Message("partialTranscript", transcriptOf(result))>>

\* resultMessages sending a result without text as an empty message.
resultMessagesUnchecked(result, sendPartials) ==
  IF ~result.IsPartial
  THEN <<Message("transcript", transcriptOf(result))>>
  ELSE IF sendPartials
  THEN <<Message("partialTranscript", transcriptOf(result))>>
  ELSE <<>>

\* Lines 42-56, the body of the loop over the results: what is passed to
\* ws.send for one result.
resultMessages(result, sendPartials) ==
  IF transcriptOf(result) = NoTranscript THEN <<>>
  ELSE IF ~result.IsPartial
  THEN <<Message("transcript", transcriptOf(result))>>
  ELSE IF sendPartials
  THEN <<Message("partialTranscript", transcriptOf(result))>>
  ELSE <<>>

RECURSIVE resultsMessages(_, _)
\* Lines 41-57: the loop over the results of one event, first to last.
resultsMessages(results, sendPartials) ==
  IF results = <<>> THEN <<>>
  ELSE resultMessages(Head(results), sendPartials)
         \o resultsMessages(Tail(results), sendPartials)

\* processTranscriptEvent with the results taken last to first.
processTranscriptEventBackwards(event, sendPartials) ==
  IF ~event.hasResults THEN <<>>
  ELSE resultsMessages(
         [k \in 1 .. Len(event.Results) |->
            event.Results[Len(event.Results) + 1 - k]], sendPartials)

\* processTranscriptEvent (lines 31-60): the calls of ws.send for one event.
processTranscriptEvent(event, sendPartials) ==
  IF ~event.hasResults THEN <<>>
  ELSE resultsMessages(event.Results, sendPartials)

\* ws.send on a socket that is not open puts nothing on the wire.
wsSend(state, messages) == IF state = "OPEN" THEN messages ELSE <<>>

(* ------------------------------------------------------------------ *)
(* Actions                                                             *)
(* ------------------------------------------------------------------ *)

\* wss 'connection' (lines 42-115): the handler runs without interruption
\* up to `await transcribeClient.send(...)`.  Connections are opened in
\* index order; which connection gets which index is immaterial.
Connection(c, req) ==
  /\ readyState[c] = "NONE"
  /\ IF c = 1 THEN TRUE ELSE readyState[c - 1] # "NONE"
  /\ LET s == IF admit(connectionCount) THEN handlerSetup(req)
              ELSE refusal IN
     /\ connectionCount' = IF s.admitted THEN connectionCount + 1
                           ELSE connectionCount
     /\ listeners' = [listeners EXCEPT ![c] =
                        IF s.admitted THEN {"close", "error"} ELSE @]
     /\ readyState' = [readyState EXCEPT ![c] =
                         IF s.wire = <<>> THEN "OPEN" ELSE "CLOSING"]
     /\ sent' = [sent EXCEPT ![c] = s.wire]
     /\ phase' = [phase EXCEPT ![c] = s.phase]
     /\ value' = [value EXCEPT ![c] = s.value]
     /\ audio' = [audio EXCEPT ![c] =
                    IF s.started THEN createAudioStream ELSE @]
     /\ timeout' = [timeout EXCEPT ![c] = IF s.started THEN "armed" ELSE @]
  /\ request' = [request EXCEPT ![c] = req]
  /\ UNCHANGED <<aborted, abortCalls, decrements, delivered, burst,
                 frameVars, relayVars, processVars>>

\* WsClose with the decrement outside the session's listener: every socket
\* that closes releases a slot, a refused one too.
WsCloseAlwaysReleases(c) ==
  /\ readyState[c] \in {"OPEN", "CLOSING"}
  /\ readyState' = [readyState EXCEPT ![c] = "CLOSED"]
  /\ connectionCount' = connectionCount - 1
  /\ decrements' = [decrements EXCEPT ![c] = @ + 1]
  /\ IF "close" \in listeners[c]
     THEN AbortUnlessAborted(c)
     ELSE UNCHANGED <<aborted, abortCalls>>
  /\ audio' = [audio EXCEPT ![c] =
                 IF "audioClose" \in listeners[c] THEN closeHandler(@) ELSE @]
  /\ UNCHANGED <<listeners, timeout, phase, request, value, sent, delivered,
                 burst, frameVars, relayVars, processVars>>

\* The socket's 'close' event: the peer went away, or a closing handshake
\* finished.  The listeners run in the order they were registered: the
\* handler's (lines 60-66), then the bridge's closeHandler.
WsClose(c) ==
  /\ readyState[c] \in {"OPEN", "CLOSING"}
  /\ readyState' = [readyState EXCEPT ![c] = "CLOSED"]
  /\ IF "close" \in listeners[c]
     THEN /\ connectionCount' = connectionCount - 1
          /\ decrements' = [decrements EXCEPT ![c] = @ + 1]
          /\ AbortUnlessAborted(c)
     ELSE UNCHANGED <<connectionCount, decrements, aborted, abortCalls>>
  /\ audio' = [audio EXCEPT ![c] =
                 IF "audioClose" \in listeners[c] THEN closeHandler(@) ELSE @]
  /\ UNCHANGED <<listeners, timeout, phase, request, value, sent, delivered,
                 burst, frameVars, relayVars, processVars>>

\* WsError with the cleanup of the close listener copied into it: the slot
\* is released on 'error' and again on 'close'.
WsErrorReleases(c) ==
  /\ "error" \in listeners[c]
  /\ readyState[c] \in {"OPEN", "CLOSING"}
  /\ readyState[c] = "OPEN" \/ ~aborted[c]
  /\ readyState' = [readyState EXCEPT ![c] = "CLOSING"]
  /\ connectionCount' = connectionCount - 1
  /\ decrements' = [decrements EXCEPT ![c] = @ + 1]
  /\ AbortUnlessAborted(c)
  /\ UNCHANGED <<listeners, timeout, phase, request, value, sent,
                 audioVars, frameVars, relayVars, processVars>>

\* The socket's 'error' event (lines 69-76).  ws emits it after it has
\* started closing the socket.  On a closing socket whose signal is aborted
\* already the listener changes nothing, and that step is left to stuttering.
WsError(c) ==
  /\ "error" \in listeners[c]
  /\ readyState[c] \in {"OPEN", "CLOSING"}
  /\ readyState[c] = "OPEN" \/ ~aborted[c]
  /\ readyState' = [readyState EXCEPT ![c] = "CLOSING"]
  /\ AbortUnlessAborted(c)
  /\ UNCHANGED <<connectionCount, listeners, timeout, phase, request, value, sent,
                 decrements, audioVars, frameVars, relayVars, processVars>>

\* TimerFire closing with the internal-error code.
TimerFireInternalError(c) ==
  /\ timeout[c] = "armed"
  /\ timeout' = [timeout EXCEPT ![c] = "fired"]
  /\ AbortUnlessAborted(c)
  /\ IF aborted[c]
     THEN UNCHANGED <<readyState, sent>>
     ELSE /\ sent' = [sent EXCEPT ![c] =
                        @ \o notifyAndClose(readyState[c], "error",
                                            InternalError)]
          /\ readyState' = [readyState EXCEPT ![c] = afterClose(@)]
  /\ UNCHANGED <<connectionCount, listeners, phase, request, value, decrements,
                 audioVars, frameVars, relayVars, processVars>>

\* The startup timer's callback (lines 100-109).
TimerFire(c) ==
  /\ timeout[c] = "armed"
  /\ timeout' = [timeout EXCEPT ![c] = "fired"]
  /\ AbortUnlessAborted(c)
  /\ IF aborted[c]
     THEN UNCHANGED <<readyState, sent>>
     ELSE /\ sent' = [sent EXCEPT ![c] =
                        @ \o notifyAndClose(readyState[c], "error",
                                            NormalClosure)]
          /\ readyState' = [readyState EXCEPT ![c] = afterClose(@)]
  /\ UNCHANGED <<connectionCount, listeners, phase, request, value, decrements,
                 audioVars, frameVars, relayVars, processVars>>

\* SendResolve without the clearTimeout of line 117: the timer is left to
\* the finally block.
SendResolveKeepsTimer(c) ==
  /\ phase[c] = "awaitSend"
  /\ ~aborted[c]
  /\ phase' = [phase EXCEPT ![c] = "relaying"]
  /\ UNCHANGED <<connectionCount, readyState, listeners, aborted, request,
                 value, timeout, sent, decrements, abortCalls, audioVars,
                 frameVars, relayVars, processVars>>

\* transcribeClient.send resolves (lines 113-120): the timer is cleared and
\* handleTranscriptionStream starts to iterate the result stream.
SendResolve(c) ==
  /\ phase[c] = "awaitSend"
  /\ ~aborted[c]
  /\ phase' = [phase EXCEPT ![c] = "relaying"]
  /\ timeout' = [timeout EXCEPT ![c] = clearTimeout(@)]
  /\ UNCHANGED <<connectionCount, readyState, listeners, aborted, request, value,
                 sent, decrements, abortCalls, audioVars,
                 frameVars, relayVars, processVars>>

\* SendReject without the finally block of lines 134-136.
SendRejectLeavesTimer(c) ==
  /\ phase[c] = "awaitSend"
  /\ phase' = [phase EXCEPT ![c] = "rejected"]
  /\ sent' = [sent EXCEPT ![c] =
                @ \o notifyAndClose(readyState[c], "error", InternalError)]
  /\ readyState' = [readyState EXCEPT ![c] = afterClose(@)]
  /\ UNCHANGED <<connectionCount, listeners, aborted, request, value,
                 timeout, decrements, abortCalls, audioVars, frameVars,
                 relayVars, processVars>>

\* SendReject whose catch block does not look at the socket's state.
SendRejectUnguarded(c) ==
  /\ phase[c] = "awaitSend"
  /\ phase' = [phase EXCEPT ![c] = "rejected"]
  /\ sent' = [sent EXCEPT ![c] = @ \o <<Send("error"), Close(InternalError)>>]
  /\ readyState' = [readyState EXCEPT ![c] = afterClose(@)]
  /\ timeout' = [timeout EXCEPT ![c] = clearTimeout(@)]
  /\ UNCHANGED <<connectionCount, listeners, aborted, request, value, decrements,
                 abortCalls, audioVars, frameVars, relayVars, processVars>>

\* transcribeClient.send rejects, by a fault of the engine or because the
\* call was aborted (lines 126-136).
SendReject(c) ==
  /\ phase[c] = "awaitSend"
  /\ phase' = [phase EXCEPT ![c] = "rejected"]
  /\ sent' = [sent EXCEPT ![c] =
                @ \o notifyAndClose(readyState[c], "error", InternalError)]
  /\ readyState' = [readyState EXCEPT ![c] = afterClose(@)]
  /\ timeout' = [timeout EXCEPT ![c] = clearTimeout(@)]
  /\ UNCHANGED <<connectionCount, listeners, aborted, request, value, decrements,
                 abortCalls, audioVars, frameVars, relayVars, processVars>>

\* The result stream ends (handleTranscriptionStream returns, then the
\* finally of lines 134-136).
StreamEnd(c) ==
  /\ phase[c] = "relaying"
  /\ phase' = [phase EXCEPT ![c] = "ended"]
  /\ timeout' = [timeout EXCEPT ![c] = clearTimeout(@)]
  /\ UNCHANGED <<connectionCount, readyState, listeners, aborted, request, value,
                 sent, decrements, abortCalls, audioVars,
                 frameVars, relayVars, processVars>>

\* StreamFault closing the connection without a word to the client.
StreamFaultUnnotified(c) ==
  /\ phase[c] = "relaying"
  /\ phase' = [phase EXCEPT ![c] = "faulted"]
  /\ sent' = [sent EXCEPT ![c] =
                @ \o IF readyState[c] = "OPEN"
                     THEN <<Close(InternalError)>> ELSE <<>>]
  /\ readyState' = [readyState EXCEPT ![c] = afterClose(@)]
  /\ timeout' = [timeout EXCEPT ![c] = clearTimeout(@)]
  /\ UNCHANGED <<connectionCount, listeners, aborted, request, value,
                 decrements, abortCalls, audioVars, frameVars,
                 relayVars, processVars>>

\* StreamFault whose handler does not look at the socket's state.
StreamFaultUnguarded(c) ==
  /\ phase[c] = "relaying"
  /\ phase' = [phase EXCEPT ![c] = "faulted"]
  /\ sent' = [sent EXCEPT ![c] = @ \o <<Send("error"), Close(InternalError)>>]
  /\ readyState' = [readyState EXCEPT ![c] = afterClose(@)]
  /\ timeout' = [timeout EXCEPT ![c] = clearTimeout(@)]
  /\ UNCHANGED <<connectionCount, listeners, aborted, request, value, decrements,
                 abortCalls, audioVars, frameVars, relayVars, processVars>>

\* Iterating the result stream throws (handleTranscriptionError).
StreamFault(c) ==
  /\ phase[c] = "relaying"
  /\ phase' = [phase EXCEPT ![c] = "faulted"]
  /\ sent' = [sent EXCEPT ![c] =
                @ \o notifyAndClose(readyState[c], "error", InternalError)]
  /\ readyState' = [readyState EXCEPT ![c] = afterClose(@)]
  /\ timeout' = [timeout EXCEPT ![c] = clearTimeout(@)]
  /\ UNCHANGED <<connectionCount, listeners, aborted, request, value, decrements,
                 abortCalls, audioVars, frameVars, relayVars, processVars>>

\* The result stream delivers its next event to the loop of
\* handleTranscriptionStream (lines 16-18); processTranscriptEvent has no
\* await in it and handles the whole event in one go.
ResultEvent(c, event) ==
  /\ phase[c] = "relaying"
  /\ Len(emitted[c]) < MaxEvents
  /\ LET messages == processTranscriptEvent(event, value[c].sendPartials) IN
     /\ emitted' = [emitted EXCEPT ![c] = Append(@, event)]
     /\ relayed' = [relayed EXCEPT ![c] = @ \o messages]
     /\ sent' = [sent EXCEPT ![c] = @ \o wsSend(readyState[c], messages)]
  /\ UNCHANGED <<connectionCount, readyState, listeners, aborted, timeout,
                 phase, request, value, decrements, abortCalls, audioVars,
                 frameVars, processVars>>

\* WsMessage with the bridge's state at module level: the frame goes to
\* every bridge that is listening.
WsMessageShared(c, message) ==
  /\ readyState[c] \in {"OPEN", "CLOSING"}
  /\ message.binary
  /\ Len(received[c]) < MaxFrames
  /\ message.chunk.seq = Len(received[c]) + 1
  /\ received' = [received EXCEPT ![c] = Append(@, message.chunk)]
  /\ lost' = [lost EXCEPT ![c] =
                IF "message" \in listeners[c] THEN @
                ELSE @ \cup {message.chunk.seq}]
  /\ audio' = [d \in Conns |->
                 IF "message" \in listeners[d]
                 THEN messageHandler(audio[d], message) ELSE audio[d]]
  /\ UNCHANGED <<control, endOfStream, supervisorVars, listeners, delivered,
                 burst>>

\* The socket's 'message' event.  Without a listener the frame goes nowhere.
WsMessage(c, message) ==
  /\ readyState[c] \in {"OPEN", "CLOSING"}
  /\ IF message.binary
     THEN /\ Len(received[c]) < MaxFrames
          /\ message.chunk.seq = Len(received[c]) + 1
          /\ received' = [received EXCEPT ![c] = Append(@, message.chunk)]
          /\ lost' = [lost EXCEPT ![c] =
                        IF "message" \in listeners[c] THEN @
                        ELSE @ \cup {message.chunk.seq}]
          /\ UNCHANGED <<control, endOfStream>>
     ELSE /\ control[c] < MaxControl
          /\ control' = [control EXCEPT ![c] = @ + 1]
          /\ endOfStream' = [endOfStream EXCEPT ![c] =
                               \/ @
                               \/ /\ message.text = "END_OF_STREAM"
                                  /\ audio[c].pc \notin {"none", "done"}]
          /\ UNCHANGED <<received, lost>>
  /\ audio' = [audio EXCEPT ![c] =
                 IF "message" \in listeners[c]
                 THEN messageHandler(@, message) ELSE @]
  /\ UNCHANGED <<supervisorVars, listeners, delivered, burst>>

\* The engine asks the audio sequence for its next chunk, at any moment
\* from the submission of the call until the call has settled (a read may
\* be in flight when the call is aborted).  The first next() enters the
\* body: lines 9-60 register the listeners.  A next() that returns runs the
\* finally block, lines 89-94.
Pull(c) ==
  /\ phase[c] \in {"awaitSend", "relaying"}
  /\ audio[c].pc \in {"notStarted", "yielded", "yieldedEnd"}
  /\ LET r == generatorNext(audio[c]) IN
     /\ audio' = [audio EXCEPT ![c] = r.audio]
     /\ delivered' = [delivered EXCEPT ![c] = @ \o r.yield]
     /\ listeners' = [listeners EXCEPT ![c] =
                        IF r.audio.pc = "done" THEN @ \ AudioListeners
                        ELSE @ \cup AudioListeners]
  /\ UNCHANGED <<supervisorVars, burst, frameVars, relayVars>>

\* The continuation of `await waitForMessage()` runs (line 83 and on).
Resume(c) ==
  /\ audio[c].pc = "woken"
  /\ LET r == generatorResume(audio[c]) IN
     /\ audio' = [audio EXCEPT ![c] = r.audio]
     /\ delivered' = [delivered EXCEPT ![c] = @ \o r.yield]
     /\ listeners' = [listeners EXCEPT ![c] =
                        IF r.audio.pc = "done" THEN @ \ AudioListeners
                        ELSE @]
  /\ burst' = [burst EXCEPT ![c] = Len(audio[c].messageQueue)]
  /\ UNCHANGED <<supervisorVars, frameVars, relayVars>>

\* The engine abandons the audio sequence: it calls return() on the
\* generator once its call is cancelled or over.  A generator suspended
\* at a yield runs its finally block (lines 89-94); one that was never
\* started just completes; one suspended at the await of line 82 is
\* running, and the return() has no effect until that await resumes.
Return(c) ==
  /\ aborted[c] \/ phase[c] \in {"rejected", "faulted", "ended"}
  /\ audio[c].pc \in {"notStarted", "yielded", "yieldedEnd"}
  /\ audio' = [audio EXCEPT ![c].pc = "returned"]
  /\ listeners' = [listeners EXCEPT ![c] = @ \ AudioListeners]
  /\ UNCHANGED <<supervisorVars, delivered, burst, frameVars>>

\* Connections the WebSocket server still holds in wss.clients: a socket
\* leaves the set when its 'close' event fires.
clients == { c \in Conns : readyState[c] \in {"OPEN", "CLOSING"} }

\* The states of a process that has called process.exit.
Exited == {"exit0", "exit1"}

\* SIGTERM or SIGINT: gracefulShutdown (lines 153-166) calls wss.close
\* with a callback and arms the ten-second timer.  wss.close stops the
\* server taking connections; it does not touch the sessions: no
\* abortController is aborted, no client socket is closed, the counter is
\* left as it is.
gracefulShutdown ==
  /\ process = "running"
  /\ process' = "shuttingDown"
  /\ UNCHANGED <<connectionCount, readyState, aborted, timeout, phase,
                 request, value, sent, decrements, abortCalls, relayVars,
                 listeners, audioVars, frameVars>>

\* The callback of wss.close (lines 155-159): the server emits 'close'
\* once no client is left, and the process exits with 0.
ServerClosed ==
  /\ process = "shuttingDown"
  /\ clients = {}
  /\ process' = "exit0"
  /\ UNCHANGED <<connectionCount, readyState, aborted, timeout, phase,
                 request, value, sent, decrements, abortCalls, relayVars,
                 listeners, audioVars, frameVars>>

\* The ten-second timer of lines 162-166 fires: the process exits with 1,
\* whatever the sessions are doing.
ForcedExit ==
  /\ process = "shuttingDown"
  /\ process' = "exit1"
  /\ UNCHANGED <<connectionCount, readyState, aborted, timeout, phase,
                 request, value, sent, decrements, abortCalls, relayVars,
                 listeners, audioVars, frameVars>>

BinaryFrames(c) ==
  { BinaryFrame(Chunk(Len(received[c]) + 1, len)) : len \in {0, 1} }

TextFrames == { TextFrame(t) : t \in ControlTexts }

(* ------------------------------------------------------------------ *)
(* Specifications                                                      *)
(* ------------------------------------------------------------------ *)

\* One session in full: frames, pulls and every event of the handler.
Next ==
  \E c \in SessionConns :
    \/ \E req \in Requests : Connection(c, req)
    \/ WsClose(c)
    \/ WsError(c)
    \/ TimerFire(c)
    \/ SendResolve(c)
    \/ SendReject(c)
    \/ StreamEnd(c)
    \/ StreamFault(c)
    \/ \E message \in BinaryFrames(c) \cup TextFrames : WsMessage(c, message)
    \/ Pull(c)
    \/ Resume(c)
    \/ Return(c)

Spec == Init /\ [][Next]_vars

\* What the event loop, the socket and the engine are bound to do: a
\* resolved promise's continuation runs, a connection comes to its close
\* event, the submitted call settles, the result stream comes to an end,
\* and the engine lets go of the audio sequence of a call that is over.
Fairness ==
  \A c \in SessionConns :
    /\ WF_vars(Resume(c))
    /\ WF_vars(WsClose(c))
    /\ WF_vars(SendResolve(c) \/ SendReject(c))
    /\ WF_vars(StreamEnd(c) \/ StreamFault(c))
    /\ WF_vars(Return(c))

SpecLive == Spec /\ Fairness

\* One more connection than the limit admits, every event of the handler
\* on each; the audio frames, which the counter does not depend on, are
\* left out.
NextAdmission ==
  \E c \in Conns :
    \/ \E req \in AdmissionRequests : Connection(c, req)
    \/ WsClose(c)
    \/ WsError(c)
    \/ TimerFire(c)
    \/ SendResolve(c)
    \/ SendReject(c)
    \/ StreamEnd(c)
    \/ StreamFault(c)

SpecAdmission == Init /\ [][NextAdmission]_vars

\* The requests of the relay specification: the partial-result preference
\* left at its default, switched off and switched on, and the requests
\* that never reach the engine.
RelayRequests ==
  AdmissionRequests \cup
    { Request(TRUE, Query("tokA", Absent, Absent, RateAbsent, p)) :
        p \in {"true", "false"} }

\* One session with its result stream; the audio frames, which the relay
\* does not depend on, are left out.
NextRelay ==
  \E c \in SessionConns :
    \/ \E req \in RelayRequests : Connection(c, req)
    \/ WsClose(c)
    \/ WsError(c)
    \/ TimerFire(c)
    \/ SendResolve(c)
    \/ SendReject(c)
    \/ StreamEnd(c)
    \/ StreamFault(c)
    \/ \E event \in Events(Len(emitted[c]) + 1) : ResultEvent(c, event)

SpecRelay == Init /\ [][NextRelay]_vars

\* The connections of SpecAdmission with a shutdown signal at any moment.
\* A server that is closing takes no connection, and a process that has
\* exited runs nothing.
NextShutdown ==
  \/ gracefulShutdown
  \/ ServerClosed
  \/ ForcedExit
  \/ /\ process = "running"
     /\ \E c \in Conns : \E req \in AdmissionRequests : Connection(c, req)
  \/ /\ process \notin Exited
     /\ \E c \in Conns :
          \/ WsClose(c)
          \/ WsError(c)
          \/ TimerFire(c)
          \/ SendResolve(c)
          \/ SendReject(c)
          \/ StreamEnd(c)
          \/ StreamFault(c)

SpecShutdown == Init /\ [][NextShutdown]_vars

\* Two connections, one after the other or side by side as the limit
\* allows, each with a request, frames and results of its own: the first
\* asks for partial results and the second does not, the frames of
\* connection c are c bytes long, and the texts of its results are
\* numbered from MaxEvents * c.
IsolationConns == {1, 2}

\* Frames and result events per connection in SpecIsolation.
MaxIsolationFrames == 1

MaxIsolationEvents == 1

IsolationRequest(c) ==
  Request(TRUE, Query("tokA", Absent, Absent, RateAbsent,
                      IF c = 1 THEN "true" ELSE "false"))

IsolationFrame(c) == BinaryFrame(Chunk(Len(received[c]) + 1, c))

IsolationEvent(c) ==
  Event(MaxEvents * c + Len(emitted[c]) + 1, <<"partial", "final">>)

NextIsolation ==
  \E c \in IsolationConns :
    \/ Connection(c, IsolationRequest(c))
    \/ WsClose(c)
    \/ SendResolve(c)
    \/ StreamFault(c)
    \/ /\ Len(emitted[c]) < MaxIsolationEvents
       /\ ResultEvent(c, IsolationEvent(c))
    \/ /\ Len(received[c]) < MaxIsolationFrames
       /\ WsMessage(c, IsolationFrame(c))
    \/ Pull(c)
    \/ Resume(c)

SpecIsolation == Init /\ [][NextIsolation]_vars

\* The validator on every request of ValidationRequests: the connection
\* handler up to its first await, and the end of the connection.
NextValidation ==
  \E c \in SessionConns :
    \/ \E req \in ValidationRequests : Connection(c, req)
    \/ WsClose(c)

SpecValidation == Init /\ [][NextValidation]_vars

(* ------------------------------------------------------------------ *)
(* Properties                                                          *)
(* ------------------------------------------------------------------ *)

IsPrefix(s, t) == Len(s) <= Len(t) /\ SubSeq(t, 1, Len(s)) = s

\* The chunks of a yielded sequence that came from the network.
AudioChunks(seq) == SelectSeq(seq, LAMBDA ch : ch # EndMarker)

\* The binary frames of a connection that a listener handled.
Handled(c) == SelectSeq(received[c], LAMBDA ch : ch.seq \notin lost[c])

EndsWithMarker(seq) == Len(seq) > 0 /\ seq[Len(seq)] = EndMarker

\* The admitted sessions whose socket has not closed.
OpenSessions ==
  { d \in Conns : "close" \in listeners[d] /\ readyState[d] # "CLOSED" }

\* Everything a connection owns.
SessionState(d) ==
  <<readyState[d], listeners[d], aborted[d], timeout[d], phase[d],
    request[d], value[d], sent[d], audio[d], delivered[d], received[d],
    lost[d], control[d], endOfStream[d], burst[d], decrements[d],
    abortCalls[d], emitted[d], relayed[d]>>

\* C1: the chunks the audio sequence has yielded are, at every moment, the
\* binary frames received on the connection so far, in arrival order, with
\* none skipped, repeated or out of place.
C1_ChunksInArrivalOrder ==
  \A c \in Conns : IsPrefix(AudioChunks(delivered[c]), received[c])

\* C2: an audio sequence that has terminated ends with the end marker if
\* and only if an explicit END_OF_STREAM frame arrived on the connection
\* before it terminated.
C2_EndMarkerIffEndOfStream ==
  \A c \in Conns :
    audio[c].pc = "done" => (EndsWithMarker(delivered[c]) <=> endOfStream[c])

\* C3: when the connection closes while the consumer is suspended waiting
\* for data, the close handler marks the bridge closed and wakes the
\* consumer.
C3_CloseWakesConsumer ==
  [][\A c \in Conns :
       (audio[c].pc = "waiting" /\ readyState[c] # "CLOSED"
          /\ readyState'[c] = "CLOSED")
         => (audio'[c].isClosed /\ audio'[c].pc = "woken")]_vars

\* C4: an admitted session has decremented the counter exactly once when
\* its socket has closed and not at all before, whatever else happened to
\* it (socket error, startup timeout, validation failure, engine error).
C4_DecrementedExactlyOnce ==
  \A c \in Conns :
    decrements[c] =
      IF "close" \in listeners[c] /\ readyState[c] = "CLOSED" THEN 1 ELSE 0

C4_Witness ==
  \E c, d \in Conns :
    /\ readyState[c] = "CLOSED" /\ timeout[c] = "fired"
    /\ phase[c] = "rejected" /\ decrements[c] = 1
    /\ readyState[d] = "CLOSED" /\ phase[d] = "invalid" /\ decrements[d] = 1

\* C5: a connection attempt made while K admitted sessions are open is
\* refused with code 1013 and changes nothing of any other connection; an
\* attempt made while fewer than K are open is admitted.
C5_AdmissionBoundary ==
  [][\A c \in Conns :
       (readyState[c] = "NONE" /\ readyState'[c] # "NONE") =>
         IF Cardinality(OpenSessions) >= MaxConnections
         THEN /\ sent'[c] = <<Close(TryAgainLater)>>
              /\ phase'[c] = "refused"
              /\ OpenSessions' = OpenSessions
              /\ \A d \in Conns \ {c} : SessionState(d)' = SessionState(d)
         ELSE /\ c \in OpenSessions'
              /\ phase'[c] # "refused"
              /\ \A i \in 1 .. Len(sent'[c]) :
                   sent'[c][i] # Close(TryAgainLater)]_vars

C5_Witness ==
  \E e, c, d \in Conns :
    /\ e < c /\ c < d
    /\ "close" \in listeners[e] /\ readyState[e] = "CLOSED"
    /\ phase[c] = "refused"
    /\ d \in OpenSessions /\ readyState[d] = "OPEN"

\* C6: a refused connection owns nothing (no listener, no cancellation
\* handle in use, no timer, no bridge, no engine call), and neither its
\* refusal nor its later close changes the counter.
C6_RefusalHasNoSideEffects ==
  [][\A c \in Conns :
       (phase'[c] = "refused" /\ readyState'[c] # readyState[c]) =>
         /\ connectionCount' = connectionCount
         /\ listeners'[c] = {}
         /\ ~aborted'[c] /\ abortCalls'[c] = 0
         /\ timeout'[c] = "none"
         /\ audio'[c] = NoAudio
         /\ value'[c] = NoValue
         /\ decrements'[c] = 0]_vars

C6_Witness ==
  \E c \in Conns :
    /\ phase[c] = "refused" /\ readyState[c] = "CLOSED"
    /\ connectionCount = MaxConnections

\* C7: the counter is never negative, never above the limit, and equal to
\* the number of admitted sessions whose socket has not closed.
C7_CounterWithinLimit ==
  /\ connectionCount >= 0
  /\ connectionCount <= MaxConnections
  /\ connectionCount = Cardinality(OpenSessions)

C7_Witness ==
  /\ connectionCount = 0
  /\ \E c, d \in Conns :
       /\ phase[c] = "refused"
       /\ decrements[d] = 1

\* A query the schema must reject: the credential is missing or not a
\* configured one, or another parameter is outside what is supported.
CredentialRejected(q) == q.token \notin apiTokens

ParameterRejected(q) ==
  \/ q.language # Absent /\ q.language \notin LanguageCodes
  \/ q.encoding # Absent /\ q.encoding \notin MediaEncodings
  \/ q.sampleRate.kind \in {"nan", "fraction"}
  \/ q.sampleRate.kind = "integer"
       /\ (q.sampleRate.n < SampleRateMin \/ q.sampleRate.n > SampleRateMax)

\* What a connection that never became a session has: no bridge, no
\* listener of one, no timer, no engine call, no chunk yielded.
NoSessionMade(c) ==
  /\ phase[c] \in {"invalid", "setupError"}
  /\ audio[c] = NoAudio
  /\ AudioListeners \cap listeners[c] = {}
  /\ timeout[c] = "none"
  /\ delivered[c] = <<>>

InvalidRequest(c) ==
  /\ phase[c] \notin {"none", "refused"}
  /\ CredentialRejected(request[c].query)
       \/ ParameterRejected(request[c].query)

C9_NaturalEndClosesNormally ==
  [][\A c \in Conns :
       (phase[c] = "relaying" /\ phase'[c] = "ended"
          /\ readyState[c] = "OPEN")
         => /\ readyState'[c] = "CLOSING"
            /\ Len(sent'[c]) > 0
            /\ sent'[c][Len(sent'[c])] = Close(NormalClosure)]_vars

\* A binary frame arrives on connection c while its consumer is suspended
\* at the await, woken or not.
FrameWhileSuspended(c) ==
  /\ audio[c].pc \in {"waiting", "woken"}
  /\ "message" \in listeners[c]
  /\ Len(received'[c]) = Len(received[c]) + 1

\* C10: frames that arrive while the consumer is suspended are all queued
\* behind one another, none replacing or merging with another; only an
\* arrival that finds the waiter performs a wake; and what the consumer has
\* seen, followed by what is queued, is the handled frames in arrival order.
C10_BackToBackFramesQueued ==
  /\ [](\A c \in Conns :
          AudioChunks(delivered[c]) \o audio[c].messageQueue = Handled(c))
  /\ [][\A c \in Conns :
          FrameWhileSuspended(c) =>
            /\ audio'[c].messageQueue =
                 Append(audio[c].messageQueue,
                        received'[c][Len(received'[c])])
            /\ delivered'[c] = delivered[c]
            /\ audio'[c].pc = IF audio[c].resolvePromise THEN "woken"
                              ELSE audio[c].pc
            /\ ~audio'[c].resolvePromise]_vars

C10_Witness ==
  \E c \in Conns :
    /\ burst[c] = 3
    /\ Len(received[c]) = 3
    /\ AudioChunks(delivered[c]) = received[c]

(* ------------------------------------------------------------------ *)
(* Properties of the result relay                                      *)
(* ------------------------------------------------------------------ *)

RECURSIVE Flatten(_)
\* The results of a sequence of events, in the order the engine emitted
\* them.
Flatten(events) ==
  IF events = <<>> THEN <<>>
  ELSE Head(events).Results \o Flatten(Tail(events))

\* The messages of one kind in a sequence of wire operations.
OfKind(seq, kind) == SelectSeq(seq, LAMBDA m : m.kind = kind)

\* One message of the given kind for each result of the sequence.
AsMessages(results, kind) ==
  [k \in 1 .. Len(results) |-> Message(kind, transcriptOf(results[k]))]

PartialsWithText(c) ==
  SelectSeq(Flatten(emitted[c]),
            LAMBDA r : r.IsPartial /\ transcriptOf(r) # NoTranscript)

FinalsWithText(c) ==
  SelectSeq(Flatten(emitted[c]),
            LAMBDA r : ~r.IsPartial /\ transcriptOf(r) # NoTranscript)

\* C11: with the partial-result preference enabled every partial result
\* with text is forwarded as exactly one partialTranscript message, and
\* with it disabled none is; a session with the preference disabled
\* whose result stream carried only partial results has put nothing at
\* all on the wire while the stream runs or after it ended.
C11_PartialsFollowPreference ==
  \A c \in Conns :
    /\ OfKind(relayed[c], "partialTranscript") =
         IF value[c].sendPartials
         THEN AsMessages(PartialsWithText(c), "partialTranscript")
         ELSE <<>>
    /\ IsPrefix(OfKind(sent[c], "partialTranscript"),
                OfKind(relayed[c], "partialTranscript"))
    /\ readyState[c] = "OPEN" =>
         OfKind(sent[c], "partialTranscript") =
           OfKind(relayed[c], "partialTranscript")
    /\ (/\ phase[c] \in {"relaying", "ended"}
        /\ ~value[c].sendPartials
        /\ \A k \in 1 .. Len(Flatten(emitted[c])) :
              Flatten(emitted[c])[k].IsPartial)
         => sent[c] = <<>>

C11_Witness ==
  \E c \in Conns :
    /\ phase[c] = "ended"
    /\ ~value[c].sendPartials
    /\ Len(emitted[c]) = MaxEvents
    /\ Len(PartialsWithText(c)) >= 2
    /\ \A k \in 1 .. Len(Flatten(emitted[c])) :
          Flatten(emitted[c])[k].IsPartial
    /\ readyState[c] = "OPEN"
    /\ sent[c] = <<>>

\* C12: every final result with text is forwarded as exactly one
\* transcript message, whatever the partial-result preference; on a
\* connection that is still open each of them is on the wire.
C12_FinalsAlwaysForwarded ==
  \A c \in Conns :
    /\ OfKind(relayed[c], "transcript") =
         AsMessages(FinalsWithText(c), "transcript")
    /\ IsPrefix(OfKind(sent[c], "transcript"),
                OfKind(relayed[c], "transcript"))
    /\ readyState[c] = "OPEN" =>
         OfKind(sent[c], "transcript") = OfKind(relayed[c], "transcript")

C12_Witness ==
  \E c \in Conns :
    /\ ~value[c].sendPartials
    /\ readyState[c] = "OPEN"
    /\ Len(FinalsWithText(c)) = 2
    /\ Len(PartialsWithText(c)) >= 1
    /\ sent[c] = AsMessages(FinalsWithText(c), "transcript")

\* The place in the result stream of the result a message carries.
Before(t, u) == t[1] < u[1] \/ (t[1] = u[1] /\ t[2] < u[2])

\* C13: the messages of the relay each carry the text of one result the
\* engine emitted, and follow one another in the order of emission,
\* across events and within an event; what is on the wire is the
\* beginning of that sequence, and all of it while the connection is open.
C13_MessagesInEmissionOrder ==
  \A c \in Conns :
    /\ \A i \in 1 .. Len(relayed[c]) :
         LET t == relayed[c][i].text IN
         /\ t[1] \in 1 .. Len(emitted[c])
         /\ t[2] \in 1 .. Len(emitted[c][t[1]].Results)
         /\ transcriptOf(emitted[c][t[1]].Results[t[2]]) = t
         /\ relayed[c][i].kind =
              IF emitted[c][t[1]].Results[t[2]].IsPartial
              THEN "partialTranscript" ELSE "transcript"
    /\ \A i, j \in 1 .. Len(relayed[c]) :
         i < j => Before(relayed[c][i].text, relayed[c][j].text)
    /\ IsPrefix(SelectSeq(sent[c], LAMBDA m : m.op = "send"
                                        /\ m.kind # "error"),
                relayed[c])
    /\ readyState[c] = "OPEN" => sent[c] = relayed[c]

C13_Witness ==
  \E c \in Conns :
    /\ readyState[c] = "OPEN"
    /\ Len(emitted[c]) = 2
    /\ Len(emitted[c][1].Results) = 2
    /\ Len(emitted[c][2].Results) = 2
    /\ Len(relayed[c]) = 4
    /\ sent[c] = relayed[c]

(* ------------------------------------------------------------------ *)
(* Properties of the timer, the cancellation and the error paths       *)
(* ------------------------------------------------------------------ *)

Closes(seq) == SelectSeq(seq, LAMBDA m : m.op = "close")

ErrorMessages(seq) ==
  SelectSeq(seq, LAMBDA m : m.op = "send" /\ m.kind = "error")

\* The phases of a session whose engine call was accepted.
Accepted == {"relaying", "ended", "faulted"}

\* C14: when the startup timer fires on a session that has not been
\* cancelled, the handler triggers the cancellation handle and, the
\* connection being open, sends one error message and closes with 1000;
\* when it fires on a cancelled session it does nothing.  The timer has
\* fired only on sessions the engine never accepted.
C14_TimeoutAbortsAndClosesNormally ==
  /\ [](\A c \in Conns : timeout[c] = "fired" => phase[c] \notin Accepted)
  /\ [][\A c \in Conns :
          (timeout[c] = "armed" /\ timeout'[c] = "fired") =>
            IF aborted[c]
            THEN /\ sent'[c] = sent[c]
                 /\ abortCalls'[c] = abortCalls[c]
                 /\ readyState'[c] = readyState[c]
            ELSE /\ aborted'[c]
                 /\ abortCalls'[c] = abortCalls[c] + 1
                 /\ IF readyState[c] = "OPEN"
                    THEN /\ sent'[c] = sent[c] \o <<Send("error"),
                                                    Close(NormalClosure)>>
                         /\ readyState'[c] = "CLOSING"
                    ELSE /\ sent'[c] = sent[c]
                         /\ readyState'[c] = readyState[c]]_vars

C14_Witness ==
  \E c \in Conns :
    /\ timeout[c] = "fired"
    /\ phase[c] = "awaitSend"
    /\ aborted[c] /\ abortCalls[c] = 1
    /\ sent[c] = <<Send("error"), Close(NormalClosure)>>
    /\ readyState[c] = "CLOSING"

\* C15: once the engine has accepted the request the startup timer is
\* cleared and stays cleared: it never fires, and the session never gets
\* the timeout's close with code 1000, however long it streams.
C15_NoTimeoutAfterAcceptance ==
  /\ [](\A c \in Conns :
          phase[c] \in Accepted =>
            /\ timeout[c] = "cleared"
            /\ \A i \in 1 .. Len(sent[c]) :
                  sent[c][i] # Close(NormalClosure))
  /\ [][\A c \in Conns :
          phase[c] \in Accepted =>
            timeout'[c] = "cleared" /\ phase'[c] \in Accepted]_vars

C15_Witness ==
  \E c \in Conns :
    /\ phase[c] = "relaying"
    /\ Len(emitted[c]) = MaxEvents
    /\ timeout[c] = "cleared"
    /\ readyState[c] = "OPEN"
    /\ ~aborted[c]

\* C16: the cancellation handle of a session is triggered at most once,
\* by the first of disconnect, socket error and startup timeout to come,
\* and an admitted session whose connection has closed has triggered it
\* exactly once.
C16_AbortedExactlyOnce ==
  /\ [](\A c \in Conns :
          /\ abortCalls[c] = IF aborted[c] THEN 1 ELSE 0
          /\ ("close" \in listeners[c] /\ readyState[c] = "CLOSED")
               => abortCalls[c] = 1)
  /\ [][\A c \in Conns :
          abortCalls'[c] # abortCalls[c] => ~aborted[c]]_vars

C16_Witness ==
  \E c \in Conns :
    /\ readyState[c] = "CLOSED"
    /\ timeout[c] = "fired"
    /\ sent[c] = <<>>
    /\ phase[c] = "rejected"
    /\ abortCalls[c] = 1

\* C17: when iterating the result stream raises a fault on an open
\* connection the relay sends one error message and then closes with
\* 1011; after a fault the relay takes no further event and puts
\* nothing more on the wire.
C17_StreamFaultNotifiesAndCloses ==
  [][\A c \in Conns :
       /\ (phase[c] = "relaying" /\ phase'[c] = "faulted"
             /\ readyState[c] = "OPEN")
            => /\ sent'[c] = sent[c] \o <<Send("error"),
                                          Close(InternalError)>>
               /\ Len(ErrorMessages(sent'[c])) = 1
               /\ readyState'[c] = "CLOSING"
               /\ emitted'[c] = emitted[c]
       /\ phase[c] = "faulted"
            => /\ phase'[c] = "faulted"
               /\ emitted'[c] = emitted[c]
               /\ relayed'[c] = relayed[c]
               /\ sent'[c] = sent[c]]_vars

C17_Witness ==
  \E c \in Conns :
    /\ phase[c] = "faulted"
    /\ Len(emitted[c]) = 1
    /\ Len(relayed[c]) = 2
    /\ sent[c] = relayed[c] \o <<Send("error"), Close(InternalError)>>
    /\ readyState[c] = "CLOSED"

\* C18: when the submission of the engine call rejects on an open
\* connection the server sends one error message and closes with 1011,
\* and the startup timer is cleared for good.
C18_RejectionNotifiesAndClearsTimer ==
  /\ [](\A c \in Conns : phase[c] = "rejected" => timeout[c] # "armed")
  /\ [][\A c \in Conns :
          /\ (phase[c] = "awaitSend" /\ phase'[c] = "rejected"
                /\ readyState[c] = "OPEN")
               => /\ sent[c] = <<>>
                  /\ sent'[c] = <<Send("error"), Close(InternalError)>>
                  /\ readyState'[c] = "CLOSING"
                  /\ timeout'[c] = "cleared"
          /\ phase[c] = "rejected" => timeout'[c] = timeout[c]]_vars

C18_Witness ==
  \E c \in Conns :
    /\ phase[c] = "rejected"
    /\ sent[c] = <<Send("error"), Close(InternalError)>>
    /\ timeout[c] = "cleared"
    /\ ~aborted[c]

\* C19: every error message the server has sent on a connection is
\* followed at once by the close of that connection: no error message is
\* last on the wire or followed by another message.
C19_ErrorThenClose ==
  \A c \in Conns :
    \A i \in 1 .. Len(sent[c]) :
      (sent[c][i].op = "send" /\ sent[c][i].kind = "error")
        => (i < Len(sent[c]) /\ sent[c][i + 1].op = "close")

C19_Witness ==
  \E c \in Conns :
    /\ Len(sent[c]) = 4
    /\ sent[c][1].kind = "partialTranscript"
    /\ sent[c][2].kind = "transcript"
    /\ sent[c][3] = Send("error")
    /\ sent[c][4] = Close(InternalError)

\* C20: over the life of a connection the server calls close at most
\* once, whatever faults the session meets and in whatever order, and a
\* fault that is surfaced is surfaced by that one close, the last thing
\* the server puts on the wire.
C20_AtMostOneClose ==
  \A c \in Conns :
    /\ Len(Closes(sent[c])) <= 1
    /\ \A i \in 1 .. Len(sent[c]) :
         sent[c][i].op = "close" => i = Len(sent[c])
    /\ phase[c] \in {"invalid", "setupError", "refused"}
         => Len(Closes(sent[c])) = 1
    /\ Len(Closes(sent[c])) = 1 => readyState[c] \in {"CLOSING", "CLOSED"}

C20_Witness ==
  \E c \in Conns :
    /\ timeout[c] = "fired"
    /\ phase[c] = "rejected"
    /\ sent[c] = <<Send("error"), Close(NormalClosure)>>
    /\ readyState[c] = "CLOSING"

(* ------------------------------------------------------------------ *)
(* Properties of the frames that are not audio                         *)
(* ------------------------------------------------------------------ *)

\* C21: a non-binary frame that is not the end-of-stream message is
\* discarded: the bridge records the end of the input only when an
\* END_OF_STREAM frame has arrived, and a frame that is not binary never
\* adds to the queue.
C21_OtherTextDiscarded ==
  \A c \in Conns :
    /\ audio[c].endStreamReceived => endOfStream[c]
    /\ Len(AudioChunks(delivered[c])) + Len(audio[c].messageQueue)
         <= Len(received[c])

\* The results of a sequence that carry text.
WithText(results) ==
  SelectSeq(results, LAMBDA r : transcriptOf(r) # NoTranscript)

Validated == { c \in Conns : phase[c] \in {"invalid", "awaitSend"} }

\* C23: validation accepts a connection if and only if the token is
\* present and one of the configured tokens, language and encoding, when
\* given, are in the supported sets, sampleRate, when given, is an integer
\* from 8000 to 48000, both included, and sendPartials, when given, is the
\* literal true or the literal false.
C23_AcceptedIffWellFormed ==
  \A c \in Validated :
    LET q == request[c].query IN
    phase[c] = "awaitSend" <=>
      /\ q.token \in apiTokens
      /\ q.language \in {Absent} \cup LanguageCodes
      /\ q.encoding \in {Absent} \cup MediaEncodings
      /\ \/ q.sampleRate = RateAbsent
         \/ \E n \in SampleRateMin .. SampleRateMax :
              q.sampleRate = RateInt(n)
      /\ q.sendPartials \in {Absent, "true", "false"}

\* C24: the validated parameters of an accepted connection are the
\* parameters the client gave, and for each one it left out the default:
\* language en-US, encoding pcm, sample rate 16000, partial results on.
C24_DefaultsAndPassThrough ==
  \A c \in Validated :
    LET q == request[c].query IN
    phase[c] = "awaitSend" =>
      /\ value[c].token = q.token
      /\ value[c].language = IF q.language = Absent THEN "en-US"
                             ELSE q.language
      /\ value[c].encoding = IF q.encoding = Absent THEN "pcm"
                             ELSE q.encoding
      /\ value[c].sampleRate = IF q.sampleRate = RateAbsent
                               THEN SampleRateDefault ELSE q.sampleRate.n
      /\ value[c].sendPartials =
           (q.sendPartials \in {Absent, "true", "TRUE"})

C24_Witness ==
  \E c \in Validated :
    /\ phase[c] = "awaitSend"
    /\ request[c].query =
         Query("tokB", Absent, "flac", RateAbsent, "false")
    /\ value[c] = [token |-> "tokB", language |-> "en-US",
                   encoding |-> "flac", sampleRate |-> SampleRateDefault,
                   sendPartials |-> FALSE]

(* ------------------------------------------------------------------ *)
(* Properties of the bridge and the consumer                           *)
(* ------------------------------------------------------------------ *)

\* C25: the binary frames that arrive after the bridge was constructed
\* and before the engine's first pull are queued in arrival order: until
\* that pull the queue is the frames received so far, and no frame of a
\* session is lost while its bridge has not terminated.
C25_FramesBeforeFirstPullQueued ==
  \A c \in Conns :
    /\ audio[c].pc = "notStarted" => audio[c].messageQueue = received[c]
    /\ audio[c].pc \notin {"none", "done"} => lost[c] = {}

\* The audio sequence of connection c is over, or was never created.
AudioOver(c) == audio[c].pc \in {"none", "done", "returned"}

\* The handler of connection c is past its awaits.
HandlerOver(c) == phase[c] \notin {"awaitSend", "relaying"}

\* C26: once the cancellation handle of a session is triggered, its
\* suspended audio pull loop and its result loop come to an end: a
\* cancelled session whose consumer is suspended at the await when the
\* bridge learns of the disconnect does not stay suspended for ever.
C26_CancelledLoopsTerminate ==
  \A c \in Conns :
    (aborted[c] /\ audio[c].isClosed /\ audio[c].pc = "waiting")
      ~> (AudioOver(c) /\ HandlerOver(c))

\* Connection c is at rest: its socket has closed, its handler is past
\* its awaits, and its generator is over or is suspended at the await
\* with the close already seen by the bridge, so that it has no step left
\* to take, by itself or by a return() of the consumer.
SessionAtRest(c) ==
  /\ readyState[c] = "CLOSED"
  /\ HandlerOver(c)
  /\ AudioOver(c) \/ (audio[c].pc = "waiting" /\ audio[c].isClosed)

\* C27: an audio sequence that has terminated, by the end marker, by the
\* close of the connection or by the consumer's return(), has removed the
\* bridge's message and close listeners, and no session comes to rest
\* with those listeners still on its connection.
C27_ListenersRemoved ==
  \A c \in Conns :
    /\ AudioOver(c) => AudioListeners \cap listeners[c] = {}
    /\ SessionAtRest(c) => AudioListeners \cap listeners[c] = {}

\* A frame of either kind arrives on connection c and the bridge's
\* message listener handles it.
FrameHandled(c) ==
  /\ "message" \in listeners[c]
  /\ received'[c] # received[c] \/ control'[c] # control[c]

\* C28: a bridge has at most one waiter, and only while its consumer is
\* suspended at the await; every wait starts from isResolving = false, so
\* it stores a new waiter and suspends; a frame, an end-of-stream signal
\* or a close that finds no waiter changes the queue and the flags only;
\* and a consumer suspended on an open bridge has its waiter stored, so
\* that the next frame wakes it.
C28_AtMostOneWaiter ==
  /\ [](\A c \in Conns :
          /\ audio[c].resolvePromise =>
               audio[c].pc = "waiting" /\ audio[c].isResolving
          /\ audio[c].isResolving <=> audio[c].pc \in {"waiting", "woken"}
          /\ (audio[c].pc = "waiting" /\ ~audio[c].isClosed)
               => audio[c].resolvePromise)
  /\ [][\A c \in Conns :
          /\ (FrameHandled(c) /\ ~audio[c].resolvePromise)
               => /\ audio'[c].pc = audio[c].pc
                  /\ ~audio'[c].resolvePromise
                  /\ audio'[c].isResolving = audio[c].isResolving
                  /\ delivered'[c] = delivered[c]
          /\ (FrameHandled(c) /\ audio[c].resolvePromise)
               => audio'[c].pc = "woken" /\ ~audio'[c].resolvePromise
          /\ (readyState'[c] = "CLOSED" /\ readyState[c] # "CLOSED"
                /\ ~audio[c].resolvePromise)
               => audio'[c].pc = audio[c].pc]_vars

C28_Witness ==
  \E c \in Conns :
    /\ audio[c].pc = "woken"
    /\ burst[c] = 2
    /\ Len(received[c]) = 3
    /\ Len(delivered[c]) = 2
    /\ audio[c].messageQueue = <<received[c][3]>>
    /\ lost[c] = {}

\* C29: while the consumer is suspended waiting the queue is empty and
\* no end-of-stream signal is recorded: the check of the queue and of the
\* flags and the wait that follows it are one step, and a frame or signal
\* that comes after it finds the waiter and wakes the consumer.
C29_NothingPendingWhileWaiting ==
  \A c \in Conns :
    audio[c].pc = "waiting" =>
      /\ audio[c].messageQueue = <<>>
      /\ ~audio[c].endStreamReceived
      /\ AudioChunks(delivered[c]) = Handled(c)

C29_Witness ==
  \E c \in Conns :
    /\ audio[c].pc = "waiting"
    /\ audio[c].resolvePromise
    /\ Len(received[c]) = MaxFrames
    /\ delivered[c] = received[c]
    /\ control[c] = 0

(* ------------------------------------------------------------------ *)
(* Properties of the order of admission, validation and submission     *)
(* ------------------------------------------------------------------ *)

\* The phases of a connection for which an engine call was submitted.
Submitted == {"awaitSend", "relaying", "rejected", "ended", "faulted"}

\* C30: a connection for which an engine call was submitted was admitted
\* (it holds the handler's listeners and took a slot) and its request
\* passed validation; the bridge and the startup timer exist for those
\* connections only; and the call is submitted once, when the connection
\* arrives, never again from a later phase.
C30_SubmissionAfterValidation ==
  /\ [](\A c \in Conns :
          IF phase[c] \in Submitted
          THEN /\ {"close", "error"} \subseteq listeners[c]
               /\ decrements[c] = 0 => connectionCount >= 1
               /\ request[c].urlOk
               /\ ~CredentialRejected(request[c].query)
               /\ ~ParameterRejected(request[c].query)
               /\ value[c] # NoValue
               /\ timeout[c] # "none"
               /\ audio[c].pc # "none"
          ELSE /\ timeout[c] = "none"
               /\ audio[c] = NoAudio
               /\ value[c] = NoValue)
  /\ [][\A c \in Conns :
          /\ phase'[c] = "awaitSend" => phase[c] \in {"none", "awaitSend"}
          /\ phase[c] # "none" =>
               (request'[c] = request[c] /\ value'[c] = value[c])]_vars

C30_Witness ==
  \E c, d, e \in Conns :
    /\ phase[c] = "ended"
    /\ phase[d] = "refused"
    /\ phase[e] = "invalid"

(* ------------------------------------------------------------------ *)
(* Properties of a connection that is gone                             *)
(* ------------------------------------------------------------------ *)

\* C31: once the close event of a connection has fired, no later path of
\* its session (the startup timer, the rejection of the engine call, a
\* fault of the result stream) puts an error message or a close on it:
\* the errors and closes of the connection stay what they were, and the
\* connection stays closed.
C31_NothingAfterDisconnect ==
  [][\A c \in Conns :
       readyState[c] = "CLOSED"
         => /\ readyState'[c] = "CLOSED"
            /\ ErrorMessages(sent'[c]) = ErrorMessages(sent[c])
            /\ Closes(sent'[c]) = Closes(sent[c])]_vars

\* The client went away in the middle of the relay and the result stream
\* failed afterwards: nothing but the results relayed before is on the wire.
C31_Witness ==
  \E c \in Conns :
    /\ readyState[c] = "CLOSED"
    /\ phase[c] = "faulted"
    /\ aborted[c]
    /\ Len(emitted[c]) >= 1
    /\ ErrorMessages(sent[c]) = <<>>
    /\ Closes(sent[c]) = <<>>

(* ------------------------------------------------------------------ *)
(* Properties of the end of the audio sequence                         *)
(* ------------------------------------------------------------------ *)

\* A binary frame of no bytes reaches the bridge's message listener.
EmptyFrameHandled(c) ==
  /\ "message" \in listeners[c]
  /\ Len(received'[c]) = Len(received[c]) + 1
  /\ received'[c][Len(received'[c])].len = 0

\* C32: a binary frame of no bytes is payload like any other: it is put
\* at the back of the queue and changes neither the end-of-stream flag
\* nor the closed flag, it is delivered at its place among the handled
\* frames, and the sequence ends or emits its marker only on a non-binary
\* frame or a close, never on such a frame.
C32_EmptyFrameIsPayload ==
  /\ [](\A c \in Conns :
          /\ IsPrefix(AudioChunks(delivered[c]), Handled(c))
          /\ audio[c].endStreamReceived => control[c] > 0
          /\ audio[c].pc \in {"yieldedEnd", "done"}
               => audio[c].endStreamReceived \/ audio[c].isClosed)
  /\ [][\A c \in Conns :
          EmptyFrameHandled(c) =>
            /\ audio'[c].messageQueue =
                 Append(audio[c].messageQueue,
                        received'[c][Len(received'[c])])
            /\ audio'[c].endStreamReceived = audio[c].endStreamReceived
            /\ audio'[c].isClosed = audio[c].isClosed
            /\ audio'[c].pc \in {audio[c].pc, "woken"}
            /\ delivered'[c] = delivered[c]]_vars

\* A frame of no bytes was delivered first and a frame with bytes after
\* it, and the sequence goes on.
C32_Witness ==
  \E c \in Conns :
    /\ Len(delivered[c]) = 2
    /\ delivered[c][1] = Chunk(1, 0)
    /\ delivered[c][2] = Chunk(2, 1)
    /\ control[c] = 0
    /\ ~audio[c].endStreamReceived
    /\ audio[c].pc = "waiting"

(* ------------------------------------------------------------------ *)
(* Properties of the shutdown                                          *)
(* ------------------------------------------------------------------ *)

\* Connections whose handler registered the session's close listener.
Sessions == { c \in Conns : phase[c] \notin {"none", "refused"} }

\* C33: when the process has exited on a shutdown signal, every session
\* it had has gone through the cleanup: its engine call is cancelled, its
\* connection is closed, and its admission slot is released.
C33_ShutdownCleansUp ==
  process \in Exited
    => /\ \A c \in Sessions :
            /\ aborted[c]
            /\ readyState[c] = "CLOSED"
            /\ decrements[c] = 1
       /\ connectionCount = 0

\* The end markers among the chunks of a sequence.
Markers(seq) == SelectSeq(seq, LAMBDA ch : ch = EndMarker)

\* C34: the sequence carries at most one end marker and the marker is its
\* last chunk: however many end-of-stream signals arrive, one marker is
\* yielded; it is yielded only when the queue is empty, so that every
\* frame queued before it goes ahead of it; and once it has been yielded
\* nothing more is.
C34_OneMarkerAndLast ==
  /\ [](\A c \in Conns :
          /\ Len(Markers(delivered[c])) <= 1
          /\ \A i \in 1 .. Len(delivered[c]) :
               delivered[c][i] = EndMarker => i = Len(delivered[c])
          /\ EndsWithMarker(delivered[c])
               => audio[c].pc \in {"yieldedEnd", "done", "returned"})
  /\ [][\A c \in Conns :
          /\ EndsWithMarker(delivered[c]) => delivered'[c] = delivered[c]
          /\ (delivered'[c] # delivered[c] /\ EndsWithMarker(delivered'[c]))
               => /\ audio[c].messageQueue = <<>>
                  /\ AudioChunks(delivered[c]) = Handled(c)]_vars

\* Two end-of-stream signals reached the running sequence after a frame:
\* the frame was delivered, then one marker, and the sequence is at its
\* break.
C34_Witness ==
  \E c \in Conns :
    /\ control[c] = 2
    /\ endOfStream[c]
    /\ Len(received[c]) >= 1
    /\ lost[c] = {}
    /\ delivered[c] = <<received[c][1], EndMarker>>
    /\ audio[c].pc = "yieldedEnd"

(* ------------------------------------------------------------------ *)
(* Properties of the relay on a connection that is not open            *)
(* ------------------------------------------------------------------ *)

\* C35: once the connection is no longer open the relay hands no further
\* result message to ws.send, whatever events the engine still delivers.
C35_NoRelayAfterClose ==
  [][\A c \in Conns :
       readyState[c] # "OPEN" => relayed'[c] = relayed[c]]_vars

\* C36: a session sends at most one error message over all its paths.
\* When the startup timer has sent its error and closed with 1000, the
\* rejection of the cancelled engine call that follows sends no second
\* error and leaves the close what it was: the wire ends with the timer's
\* error and its close 1000.
C36_AtMostOneError ==
  \A c \in Conns :
    /\ Len(ErrorMessages(sent[c])) <= 1
    /\ (timeout[c] = "fired" /\ ErrorMessages(sent[c]) # <<>>)
         => /\ sent[c] = <<Send("error"), Close(NormalClosure)>>
            /\ phase[c] \in {"awaitSend", "rejected"}

\* The timer fired, the client answered the close, and the cancelled call
\* was rejected after that.
C36_Witness ==
  \E c \in Conns :
    /\ timeout[c] = "fired"
    /\ phase[c] = "rejected"
    /\ abortCalls[c] = 1
    /\ decrements[c] = 1
    /\ readyState[c] = "CLOSED"
    /\ Len(ErrorMessages(sent[c])) = 1
    /\ Closes(sent[c]) = <<Close(NormalClosure)>>

(* ------------------------------------------------------------------ *)
(* Properties of sessions side by side                                 *)
(* ------------------------------------------------------------------ *)

\* The elements of a sequence.
Range(seq) == { seq[i] : i \in 1 .. Len(seq) }

\* The texts of the results the engine emitted for a connection.
TextsOf(c) == { transcriptOf(r) : r \in Range(Flatten(emitted[c])) }

====
